---- MODULE Spec2Model ----
(***************************************************************************)
(* Model of backend/utils/imageUploader.js: the retrying upload client     *)
(* (uploadWithRetry), the upload entry point (uploadImageToCloudinary)     *)
(* and the deletion entry point (deleteResourceFromCloudinary).            *)
(*                                                                         *)
(* An async function is modelled by one action per stretch of synchronous  *)
(* code between two suspension points (await).  The remote service is the  *)
(* environment: each request it receives is answered, nondeterministically,*)
(* by a descriptor or by one of a few errors.                              *)
(***************************************************************************)
EXTENDS Integers, Sequences, FiniteSets, TLC

(***************************************************************************)
(* Bounds of the model.                                                    *)
(***************************************************************************)
\* Number of path segments that may follow the version segment of a URL.
MaxTail == 3

\* The calls that may run concurrently.
Calls == {1, 2}

(***************************************************************************)
(* JavaScript values and string primitives.  Strings are TLA+ strings;     *)
(* a value that may also be undefined or a non-string is a tagged record.  *)
(***************************************************************************)
Undefined == [t |-> "undefined"]
Null == [t |-> "null"]
Str(s) == [t |-> "string", s |-> s]
Num(n) == [t |-> "number", n |-> n]

\* ToBoolean: undefined, null, "" and 0 are falsy.
Truthy(v) ==
    CASE v.t = "undefined" -> FALSE
      [] v.t = "null" -> FALSE
      [] v.t = "string" -> v.s # ""
      [] v.t = "number" -> v.n # 0
      [] OTHER -> TRUE

Ch(s, i) == SubSeq(s, i, i)

\* String.prototype.startsWith
StartsWith(s, p) == Len(s) >= Len(p) /\ SubSeq(s, 1, Len(p)) = p

\* String.prototype.includes
Includes(s, sub) ==
    \E i \in 1..(Len(s) - Len(sub) + 1) : SubSeq(s, i, i + Len(sub) - 1) = sub

\* The white space String.prototype.trim removes (the part the inputs use).
IsSpace(c) == c \in {" ", "\t", "\n"}

\* String.prototype.trim
Trim(s) ==
    LET nonSpace == {i \in 1..Len(s) : ~IsSpace(Ch(s, i))}
    IN  IF nonSpace = {} THEN ""
        ELSE LET lo == CHOOSE i \in nonSpace : \A j \in nonSpace : i <= j
                 hi == CHOOSE i \in nonSpace : \A j \in nonSpace : j <= i
             IN  SubSeq(s, lo, hi)

\* String.prototype.split(sep) for a one-character separator.
RECURSIVE SplitFrom(_, _, _, _)
SplitFrom(s, sep, start, i) ==
    IF i > Len(s) THEN <<SubSeq(s, start, Len(s))>>
    ELSE IF Ch(s, i) = sep
         THEN <<SubSeq(s, start, i - 1)>> \o SplitFrom(s, sep, i + 1, i + 1)
         ELSE SplitFrom(s, sep, start, i + 1)

Split(s, sep) == SplitFrom(s, sep, 1, 1)

\* Array.prototype.join(sep)
RECURSIVE Join(_, _)
Join(parts, sep) ==
    IF Len(parts) = 0 THEN ""
    ELSE IF Len(parts) = 1 THEN parts[1]
    ELSE parts[1] \o sep \o Join(Tail(parts), sep)

IsDigit(c) == c \in {"0", "1", "2", "3", "4", "5", "6", "7", "8", "9"}

(***************************************************************************)
(* Errors.  A remote rejection carries the service's http_code (0 when the *)
(* failure has none, as for a network fault); an error made by this module *)
(* with `new Error(message)` has no http_code.                             *)
(***************************************************************************)
RemoteError(msg, code) == [origin |-> "remote", message |-> msg, http_code |-> code]
NewError(msg) == [origin |-> "local", message |-> msg, http_code |-> 0]

ErrTimeout == RemoteError("ETIMEDOUT", 0)
ErrBadRequest == RemoteError("Invalid option", 400)
ErrTooLarge == RemoteError("Request Entity Too Large", 413)

\* The failures the remote service may answer a request with.
RemoteErrors == {ErrTimeout, ErrBadRequest, ErrTooLarge}

\* The descriptor the remote service returns for attempt n of call c.
Descriptor(c, n, options) ==
    [public_id |-> <<c, n>>, resource_type |-> options.resource_type]

\* What an attempt may end with: a descriptor or a failure.
Ok(d) == [ok |-> TRUE, result |-> d, error |-> NewError("")]
Fail(e) == [ok |-> FALSE, result |-> Undefined, error |-> e]

(***************************************************************************)
(* State.                                                                  *)
(***************************************************************************)
VARIABLES
    \* uploadWithRetry, one activation chain per call
    rPc,          \* "idle", "inflight", "waiting", "returned", "thrown"
    rFile,        \* the file argument
    rOptions,     \* the options argument
    rRetryCount,  \* the retryCount argument of the current activation
    rLog,         \* attempts, their outcomes and the waits, in order
    rWaited,      \* milliseconds spent in wait()
    rResult,      \* the value the call resolved with
    rError,       \* the error the call rejected with
    \* uploadImageToCloudinary, per call
    uPc,          \* "idle", "first", "second", "returned", "thrown"
    uFile,        \* the file argument
    uFolder,      \* the folder argument
    uOptions,     \* the local uploadOptions object
    uLog,         \* attempts and their outcomes, in order
    uResult,      \* the value the call resolved with
    uError,       \* the error the call rejected with
    \* deleteResourceFromCloudinary
    dPc,          \* "idle", "destroying", "purging", "returned", "thrown"
    dUrl,         \* the url argument
    dPublicId,    \* the local publicId
    dLog,         \* the remote calls issued, in order
    dResult,      \* the local result (of uploader.destroy)
    dReturn,      \* the value the call resolved with
    dError,       \* the error the call rejected with
    dSettled,     \* how the remote calls issued have settled, in order
    \* processImage
    pPc,          \* "idle", "metadata", "encoding", "returned", "thrown"
    pBuffer,      \* the fileBuffer argument
    pConfig,      \* maxWidth, maxHeight, quality, format after the defaults
    pMetadata,    \* the local metadata
    pSteps,       \* the operations invoked on sharpInstance, in order
    pResult,      \* the value the call resolved with
    pError        \* the error the call rejected with

retryVars == <<rPc, rFile, rOptions, rRetryCount, rLog, rWaited, rResult, rError>>
uploadVars == <<uPc, uFile, uFolder, uOptions, uLog, uResult, uError>>
deleteVars == <<dPc, dUrl, dPublicId, dLog, dResult, dReturn, dError, dSettled>>

transcodeVars == <<pPc, pBuffer, pConfig, pMetadata, pSteps, pResult, pError>>

vars == <<retryVars, uploadVars, deleteVars, transcodeVars>>

(***************************************************************************)
(* uploadWithRetry                                                         *)
(***************************************************************************)
MAX_RETRIES == 3
RETRY_DELAY == 5000

Buffer(bytes) == [t |-> "Buffer", bytes |-> bytes]

NoFile == [buffer |-> Undefined, path |-> Undefined]
NoOptions == [resource_type |-> "auto", folder |-> Undefined]

\* The files and options uploadWithRetry is called with.
RetryFiles ==
    { [buffer |-> Buffer("raw"), path |-> Undefined],
      [buffer |-> Undefined, path |-> Str("/tmp/upload.bin")],
      NoFile }

RetryOptions ==
    { [resource_type |-> "auto", folder |-> Str("course-101")],
      [resource_type |-> "video", folder |-> Undefined] }

\* The options object handed to cloudinary.uploader.upload_stream: the
\* caller's options, then the five flags, which win over the caller's.
StreamOptions(options) ==
    [ resource_type |-> options.resource_type,
      folder |-> options.folder,
      use_filename |-> TRUE,
      unique_filename |-> TRUE,
      overwrite |-> FALSE,
      invalidate |-> TRUE,
      async |-> TRUE ]

\* What the attempt writes into the upload stream: the buffer, else the
\* contents of the file at path, else nothing (the attempt is rejected
\* locally with 'Invalid file format').
StreamBody(file) ==
    IF Truthy(file.buffer) THEN [from |-> "buffer", data |-> file.buffer.bytes]
    ELSE IF Truthy(file.path) THEN [from |-> "path", data |-> file.path.s]
    ELSE [from |-> "none", data |-> ""]

ErrInvalidFormat == NewError("Invalid file format")

\* The ways attempt n of call c may end.
AttemptOutcomes(c, n, file, options) ==
    IF StreamBody(file).from = "none"
    THEN {Fail(ErrInvalidFormat)}
    ELSE {Ok(Descriptor(c, n, options))} \cup {Fail(e) : e \in RemoteErrors}

AttemptEvent(n, file, options) ==
    [type |-> "attempt", n |-> n, options |-> StreamOptions(options), body |-> StreamBody(file)]

OkEvent(n, d) == [type |-> "ok", n |-> n, result |-> d]
FailEvent(n, e) == [type |-> "fail", n |-> n, error |-> e]
WaitEvent(n, ms) == [type |-> "wait", n |-> n, ms |-> ms]

\* Variant of ShouldRetry: the test written with <=.
ShouldRetryOffByOne(retryCount) == retryCount <= MAX_RETRIES

\* Variant of ShouldRetry: one retry fewer.
ShouldRetryTwice(retryCount) == retryCount < MAX_RETRIES - 1

\* The catch block's test: retry while retryCount < MAX_RETRIES.
ShouldRetry(retryCount) == retryCount < MAX_RETRIES

\* Variant of RetryWait: the delay handed to the timer in seconds.
RetryWaitSeconds(retryCount) == RETRY_DELAY \div 1000

\* The delay the catch block waits before it calls itself again.
RetryWait(retryCount) == RETRY_DELAY

\* The call, up to its first await: the first attempt is on its way.
RStart(c, file, options) ==
    /\ rPc[c] = "idle"
    /\ rPc' = [rPc EXCEPT ![c] = "inflight"]
    /\ rFile' = [rFile EXCEPT ![c] = file]
    /\ rOptions' = [rOptions EXCEPT ![c] = options]
    /\ rRetryCount' = [rRetryCount EXCEPT ![c] = 0]
    /\ rLog' = [rLog EXCEPT ![c] = <<AttemptEvent(1, file, options)>>]
    /\ UNCHANGED <<rWaited, rResult, rError>>

\* The attempt's promise settles: resolve returns the result through every
\* activation; reject enters the catch block, which waits or rethrows.
RSettle(c, outcome) ==
    /\ rPc[c] = "inflight"
    /\ outcome \in AttemptOutcomes(c, rRetryCount[c] + 1, rFile[c], rOptions[c])
    /\ IF outcome.ok
       THEN /\ rPc' = [rPc EXCEPT ![c] = "returned"]
            /\ rResult' = [rResult EXCEPT ![c] = outcome.result]
            /\ rLog' = [rLog EXCEPT ![c] = Append(@, OkEvent(rRetryCount[c] + 1, outcome.result))]
            /\ UNCHANGED rError
       ELSE /\ rLog' = [rLog EXCEPT ![c] = Append(@, FailEvent(rRetryCount[c] + 1, outcome.error))]
            /\ IF ShouldRetry(rRetryCount[c])
               THEN /\ rPc' = [rPc EXCEPT ![c] = "waiting"]
                    /\ UNCHANGED rError
               ELSE /\ rPc' = [rPc EXCEPT ![c] = "thrown"]
                    /\ rError' = [rError EXCEPT ![c] = outcome.error]
            /\ UNCHANGED rResult
    /\ UNCHANGED <<rFile, rOptions, rRetryCount, rWaited>>

\* The timer of wait(RETRY_DELAY) fires: uploadWithRetry(file, options,
\* retryCount + 1) runs up to its await, with the same file and options.
RWaitDone(c) ==
    /\ rPc[c] = "waiting"
    /\ rWaited' = [rWaited EXCEPT ![c] = @ + RetryWait(rRetryCount[c])]
    /\ rRetryCount' = [rRetryCount EXCEPT ![c] = @ + 1]
    /\ rLog' = [rLog EXCEPT ![c] =
                  @ \o << WaitEvent(rRetryCount[c] + 1, RetryWait(rRetryCount[c])),
                          AttemptEvent(rRetryCount[c] + 2, rFile[c], rOptions[c]) >>]
    /\ rPc' = [rPc EXCEPT ![c] = "inflight"]
    /\ UNCHANGED <<rFile, rOptions, rResult, rError>>

RetryInit ==
    /\ rPc = [c \in Calls |-> "idle"]
    /\ rFile = [c \in Calls |-> NoFile]
    /\ rOptions = [c \in Calls |-> NoOptions]
    /\ rRetryCount = [c \in Calls |-> 0]
    /\ rLog = [c \in Calls |-> <<>>]
    /\ rWaited = [c \in Calls |-> 0]
    /\ rResult = [c \in Calls |-> Undefined]
    /\ rError = [c \in Calls |-> NewError("")]

(***************************************************************************)
(* uploadImageToCloudinary                                                 *)
(***************************************************************************)
MB == 1024 * 1024

NoUpload == [originalname |-> "", mimetype |-> Undefined, size |-> 0, buffer |-> Undefined]

\* The files and folders the entry point is called with.
UploadBuffers == {Buffer("raw"), Undefined, Str("raw")}
UploadMimetypes == {Str("image/png"), Str("video/mp4"), Undefined}
UploadSizes == {MB \div 2, 2 * MB, 6 * MB}

UploadFiles ==
    { [originalname |-> "upload.bin", mimetype |-> m, size |-> z, buffer |-> b] :
        m \in UploadMimetypes, z \in UploadSizes, b \in UploadBuffers }

UploadFolders ==
    {Undefined, Str(""), Str("undefined"), Str("   "), Str("course-101"), Str("chat-images")}

\* Variant of InvalidBuffer: without the Buffer.isBuffer test.
InvalidBufferOnlyMissing(file) == ~Truthy(file.buffer)

\* !file.buffer || !Buffer.isBuffer(file.buffer)
InvalidBuffer(file) == ~Truthy(file.buffer) \/ file.buffer.t # "Buffer"

\* file.mimetype && file.mimetype.startsWith('video/')
IsVideo(file) == Truthy(file.mimetype) /\ StartsWith(file.mimetype.s, "video/")

\* Variant of MinimalOptions: the resource type "auto" for every file.
MinimalOptionsAuto(file) == [resource_type |-> "auto", folder |-> Undefined]

\* The uploadOptions of the first attempt: the resource type and nothing else.
MinimalOptions(file) ==
    [resource_type |-> IF IsVideo(file) THEN "video" ELSE "auto", folder |-> Undefined]

\* Variant of HasFolder: any non-empty string names a folder.
HasFolderAnyString(folder) == Truthy(folder)

\* Variant of HasFolder: without the trim() test.
HasFolderNoTrim(folder) == Truthy(folder) /\ folder.s # "undefined"

\* folder && folder !== 'undefined' && folder.trim() !== ''
HasFolder(folder) ==
    Truthy(folder) /\ folder.s # "undefined" /\ Trim(folder.s) # ""

\* Variant of WithFolder: the assignment left out.
WithFolderDropped(options, folder) == options

\* uploadOptions.folder = folder
WithFolder(options, folder) == [options EXCEPT !.folder = folder]

\* Variant of SecondAttempt: a 413 rejection is not tried again.
SecondAttemptUnless413(firstError, folder) == HasFolder(folder) /\ firstError.http_code # 413

\* Whether the inner catch block goes on to a second attempt: the test
\* looks at the folder alone, not at firstError.
SecondAttempt(firstError, folder) == HasFolder(folder)

\* (x).toFixed(2) of x = size / (1024 * 1024), for a size in bytes.
ToFixed2MB(size) ==
    LET h == (size * 200 + MB) \div (2 * MB)
    IN  ToString(h \div 100) \o "." \o (IF h % 100 < 10 THEN "0" ELSE "")
          \o ToString(h % 100)

TooLargeMessage(file) ==
    "File too large for upload (" \o ToFixed2MB(file.size)
      \o "MB). Cloudinary free accounts have upload limits. Please try a smaller file or upgrade your Cloudinary account."

\* Variant of Is413: the test never succeeds.
Is413Never(error) == FALSE

\* error.http_code === 413
Is413(error) == error.http_code = 413

\* Variant of OuterCatch: the caught error is rethrown as it is.
OuterCatchRethrow(error, file) == error

\* The outer catch block: the error the caller receives for a caught error.
OuterCatch(error, file) ==
    IF Is413(error)
    THEN NewError(TooLargeMessage(file))
    ELSE NewError("Failed to upload file: " \o error.message)

ErrInvalidBuffer == NewError("Invalid file buffer")

UploadOutcomes(c, n, options) ==
    {Ok(Descriptor(c, n, options))} \cup {Fail(e) : e \in RemoteErrors}

\* What uploadStream.end(chunk) writes: the bytes of a Buffer, the
\* characters of a string, nothing for undefined.
StreamData(chunk) ==
    CASE chunk.t = "Buffer" -> chunk.bytes
      [] chunk.t = "string" -> chunk.s
      [] OTHER -> ""

\* What is handed to upload_stream and written into it by the entry point.
UploadEvent(n, file, options) ==
    [type |-> "attempt", n |-> n, options |-> options,
     body |-> [from |-> "buffer", data |-> StreamData(file.buffer)]]

\* Variant of SetLocal: one binding shared by all calls (a variable of
\* module scope).
SetShared(all, c, value) == [d \in Calls |-> value]

\* An assignment to a binding that is local to call c (let uploadOptions,
\* the parameters file, options and retryCount): the other calls' bindings
\* are other bindings.
SetLocal(all, c, value) == [all EXCEPT ![c] = value]

\* catch (firstError): the failure recorded after the first attempt.
FirstError(log) == log[2].error

\* Variant of CaughtAfterSecond: the first attempt's error is thrown.
CaughtFirstAfterSecond(firstError, secondError) == firstError

\* The error the outer catch block catches when the second attempt has
\* failed: the rejection of the second promise; firstError is dropped.
CaughtAfterSecond(firstError, secondError) == secondError

\* Variant of Returned: only the fields the success log prints.
ReturnedLogged(result) == [public_id |-> result.public_id]

\* return result;
Returned(result) == result

\* Variant of InnerCatchEvents: wait(RETRY_DELAY) before the second attempt.
InnerCatchEventsAfterWait(firstError, file, options) ==
    <<FailEvent(1, firstError), WaitEvent(1, RETRY_DELAY), UploadEvent(2, file, options)>>

\* What the inner catch block adds to the history when it goes on: the
\* failure it caught and, with nothing awaited in between, the second
\* attempt.
InnerCatchEvents(firstError, file, options) ==
    <<FailEvent(1, firstError), UploadEvent(2, file, options)>>

\* The call, up to its first await: validation, then the first attempt,
\* without folder, is on its way.  What is written into the stream is
\* file.buffer itself: the entry point does not call processImage (which no
\* code of the module calls), whatever the mimetype and the size.
UStart(c, file, folder) ==
    /\ uPc[c] = "idle"
    /\ uFile' = [uFile EXCEPT ![c] = file]
    /\ uFolder' = [uFolder EXCEPT ![c] = folder]
    /\ IF InvalidBuffer(file)
       THEN /\ uPc' = [uPc EXCEPT ![c] = "thrown"]
            /\ uError' = [uError EXCEPT ![c] = OuterCatch(ErrInvalidBuffer, file)]
            /\ UNCHANGED <<uOptions, uLog>>
       ELSE /\ uPc' = [uPc EXCEPT ![c] = "first"]
            /\ uOptions' = SetLocal(uOptions, c, MinimalOptions(file))
            /\ uLog' = [uLog EXCEPT ![c] = <<UploadEvent(1, file, MinimalOptions(file))>>]
            /\ UNCHANGED uError
    /\ UNCHANGED uResult

\* The first attempt settles: its result is returned, or the inner catch
\* block adds the folder and starts the second attempt, or rethrows.
UFirstSettle(c, outcome) ==
    /\ uPc[c] = "first"
    /\ outcome \in UploadOutcomes(c, 1, uOptions[c])
    /\ IF outcome.ok
       THEN /\ uPc' = [uPc EXCEPT ![c] = "returned"]
            /\ uResult' = [uResult EXCEPT ![c] = Returned(outcome.result)]
            /\ uLog' = [uLog EXCEPT ![c] = Append(@, OkEvent(1, outcome.result))]
            /\ UNCHANGED <<uOptions, uError>>
       ELSE IF SecondAttempt(outcome.error, uFolder[c])
            THEN /\ uPc' = [uPc EXCEPT ![c] = "second"]
                 /\ uOptions' = SetLocal(uOptions, c, WithFolder(uOptions[c], uFolder[c]))
                 /\ uLog' = [uLog EXCEPT ![c] =
                               @ \o InnerCatchEvents(outcome.error, uFile[c],
                                                     WithFolder(uOptions[c], uFolder[c]))]
                 /\ UNCHANGED <<uResult, uError>>
            ELSE /\ uPc' = [uPc EXCEPT ![c] = "thrown"]
                 /\ uError' = [uError EXCEPT ![c] = OuterCatch(outcome.error, uFile[c])]
                 /\ uLog' = [uLog EXCEPT ![c] = Append(@, FailEvent(1, outcome.error))]
                 /\ UNCHANGED <<uOptions, uResult>>
    /\ UNCHANGED <<uFile, uFolder>>

\* The second attempt settles: its result is returned, or its error goes
\* to the outer catch block.
USecondSettle(c, outcome) ==
    /\ uPc[c] = "second"
    /\ outcome \in UploadOutcomes(c, 2, uOptions[c])
    /\ IF outcome.ok
       THEN /\ uPc' = [uPc EXCEPT ![c] = "returned"]
            /\ uResult' = [uResult EXCEPT ![c] = Returned(outcome.result)]
            /\ uLog' = [uLog EXCEPT ![c] = Append(@, OkEvent(2, outcome.result))]
            /\ UNCHANGED uError
       ELSE /\ uPc' = [uPc EXCEPT ![c] = "thrown"]
            /\ uError' = [uError EXCEPT ![c] =
                             OuterCatch(CaughtAfterSecond(FirstError(uLog[c]), outcome.error), uFile[c])]
            /\ uLog' = [uLog EXCEPT ![c] = Append(@, FailEvent(2, outcome.error))]
            /\ UNCHANGED uResult
    /\ UNCHANGED <<uFile, uFolder, uOptions>>

UploadInit ==
    /\ uPc = [c \in Calls |-> "idle"]
    /\ uFile = [c \in Calls |-> NoUpload]
    /\ uFolder = [c \in Calls |-> Undefined]
    /\ uOptions = [c \in Calls |-> NoOptions]
    /\ uLog = [c \in Calls |-> <<>>]
    /\ uResult = [c \in Calls |-> Undefined]
    /\ uError = [c \in Calls |-> NewError("")]

(***************************************************************************)
(* deleteResourceFromCloudinary                                            *)
(***************************************************************************)
\* The urls the deletion entry point is called with: hosted and foreign
\* urls with and without the "upload" and version segments, followed by up
\* to MaxTail path segments; the empty string, undefined and a number.
UrlHosts == {"https://res.cloudinary.com/cloud", "https://res.example.com/cloud"}
UrlKinds == {"/image", "/image/upload"}
UrlVersions == {"", "/v1700000000"}
TailSegments == {"folder", "sub", "name.png", "name", "v12"}

RECURSIVE Tails(_)
Tails(n) ==
    IF n = 0 THEN {""}
    ELSE Tails(n - 1) \cup {t \o "/" \o g : t \in Tails(n - 1), g \in TailSegments}

HostedUrls ==
    {h \o k \o v \o t : h \in UrlHosts, k \in UrlKinds, v \in UrlVersions, t \in Tails(MaxTail)}

DeleteUrls == {Str(u) : u \in HostedUrls} \cup {Str(""), Undefined, Null, Num(42)}

\* urlParts.findIndex(part => part === 'upload'), 1-based; 0 when absent.
FindUpload(urlParts) ==
    LET hits == {i \in 1..Len(urlParts) : urlParts[i] = "upload"}
    IN  IF hits = {} THEN 0 ELSE CHOOSE i \in hits : \A j \in hits : i <= j

\* part.match(/^v\d+$/)
IsVersion(part) ==
    /\ Len(part) >= 2
    /\ Ch(part, 1) = "v"
    /\ \A i \in 2..Len(part) : IsDigit(Ch(part, i))

\* s.replace(/\.[^/.]+$/, ''): the last dot and what follows it are
\* removed when at least one character follows and none of them is a slash.
StripExtension(s) ==
    LET dots == {i \in 1..Len(s) : /\ Ch(s, i) = "."
                                   /\ i < Len(s)
                                   /\ \A j \in (i + 1)..Len(s) : Ch(s, j) \notin {"/", "."}}
    IN  IF dots = {} THEN s
        ELSE SubSeq(s, 1, (CHOOSE i \in dots : TRUE) - 1)

\* Variant of DropVersion: the version segment is kept.
DropVersionNever(pathAfterUpload) == pathAfterUpload

\* if (pathAfterUpload[0] && pathAfterUpload[0].match(/^v\d+$/)) pathAfterUpload.shift()
DropVersion(pathAfterUpload) ==
    IF pathAfterUpload[1] # "" /\ IsVersion(pathAfterUpload[1])
    THEN Tail(pathAfterUpload)
    ELSE pathAfterUpload

\* url.includes('cloudinary.com')
IsHosted(url) == Includes(url, "cloudinary.com")

\* The publicId derived from a string url.
PublicIdOf(url) ==
    IF IsHosted(url)
    THEN LET urlParts == Split(url, "/")
             at == FindUpload(urlParts)
         IN  \* uploadIndex !== -1 && uploadIndex + 2 < urlParts.length
             IF at # 0 /\ (at - 1) + 2 < Len(urlParts)
             THEN StripExtension(Join(DropVersion(SubSeq(urlParts, at + 1, Len(urlParts))), "/"))
             ELSE url
    ELSE url

\* Variant of EarlyReturn: only undefined returns early.
EarlyReturnOnlyUndefined(url) == url.t = "undefined"

\* if (!url) return;
EarlyReturn(url) == ~Truthy(url)

\* Variant of DeleteCatch: the caught error is rethrown.
DeleteCatchRethrow(error) == [pc |-> "thrown", value |-> Undefined, error |-> error]

\* Variant of DeleteCatch: the catch block returns the local result.
DeleteCatchReturnsResult(error) == [pc |-> "returned", value |-> dResult, error |-> NewError("")]

\* The catch block: what the call ends with when anything in the try
\* block has thrown.
DeleteCatch(error) == [pc |-> "returned", value |-> Null, error |-> NewError("")]

ErrNotAFunction == NewError("url.includes is not a function")

DestroyOptions == [invalidate |-> TRUE, resource_type |-> "auto", type |-> "upload"]

DestroyCall(publicId) == [api |-> "uploader.destroy", public_id |-> publicId, options |-> DestroyOptions]

\* Variant of PurgeCall: the purge is asked for the url, not the identifier.
PurgeCallOfUrl(publicId) == [api |-> "api.delete_derived_resources", public_id |-> dUrl.s]

\* cloudinary.api.delete_derived_resources(publicId)
PurgeCall(publicId) == [api |-> "api.delete_derived_resources", public_id |-> publicId]

\* What uploader.destroy and api.delete_derived_resources may answer.
DestroyOutcomes ==
    {Ok([result |-> "ok"]), Ok([result |-> "not found"])} \cup {Fail(e) : e \in {ErrTimeout, ErrBadRequest}}

PurgeOutcomes == {Ok([deleted |-> TRUE])} \cup {Fail(e) : e \in {ErrTimeout, ErrBadRequest}}

\* The call, up to its first await: the early return, or the derivation
\* of publicId and the delete-by-identifier request.
DCall(url) ==
    /\ dPc = "idle"
    /\ dUrl' = url
    /\ IF EarlyReturn(url)
       THEN /\ dPc' = "returned"
            /\ dReturn' = Undefined
            /\ UNCHANGED <<dPublicId, dLog, dError>>
       ELSE IF url.t # "string"
            THEN \* url.includes throws a TypeError inside the try block
                 /\ dPc' = DeleteCatch(ErrNotAFunction).pc
                 /\ dReturn' = DeleteCatch(ErrNotAFunction).value
                 /\ dError' = DeleteCatch(ErrNotAFunction).error
                 /\ UNCHANGED <<dPublicId, dLog>>
            ELSE /\ dPc' = "destroying"
                 /\ dPublicId' = PublicIdOf(url.s)
                 /\ dLog' = Append(dLog, DestroyCall(PublicIdOf(url.s)))
                 /\ UNCHANGED <<dReturn, dError>>
    /\ UNCHANGED <<dResult, dSettled>>

\* uploader.destroy settles: the purge request follows, or the catch block.
DDestroySettle(outcome) ==
    /\ dPc = "destroying"
    /\ outcome \in DestroyOutcomes
    /\ IF outcome.ok
       THEN /\ dPc' = "purging"
            /\ dResult' = outcome.result
            /\ dLog' = Append(dLog, PurgeCall(dPublicId))
            /\ UNCHANGED <<dReturn, dError>>
       ELSE /\ dPc' = DeleteCatch(outcome.error).pc
            /\ dReturn' = DeleteCatch(outcome.error).value
            /\ dError' = DeleteCatch(outcome.error).error
            /\ UNCHANGED <<dResult, dLog>>
    /\ dSettled' = Append(dSettled, outcome)
    /\ UNCHANGED <<dUrl, dPublicId>>

\* api.delete_derived_resources settles: result is returned, or the catch block.
DPurgeSettle(outcome) ==
    /\ dPc = "purging"
    /\ outcome \in PurgeOutcomes
    /\ IF outcome.ok
       THEN /\ dPc' = "returned"
            /\ dReturn' = dResult
            /\ UNCHANGED dError
       ELSE /\ dPc' = DeleteCatch(outcome.error).pc
            /\ dReturn' = DeleteCatch(outcome.error).value
            /\ dError' = DeleteCatch(outcome.error).error
    /\ dSettled' = Append(dSettled, outcome)
    /\ UNCHANGED <<dUrl, dPublicId, dLog, dResult>>

DeleteInit ==
    /\ dPc = "idle"
    /\ dUrl = Undefined
    /\ dPublicId = ""
    /\ dLog = <<>>
    /\ dResult = Undefined
    /\ dReturn = Undefined
    /\ dError = NewError("")
    /\ dSettled = <<>>

(***************************************************************************)
(* processImage                                                            *)
(***************************************************************************)
IMAGE_CONFIG ==
    [maxWidth |-> 1920, maxHeight |-> 1080, quality |-> 85, format |-> "jpeg"]

\* An image file in memory: its encoding and its intrinsic dimensions.
ImageBuffer(format, width, height) ==
    [t |-> "Buffer", bytes |-> format, width |-> width, height |-> height]

NoImage == ImageBuffer("", 0, 0)
NoTranscodeOptions ==
    [maxWidth |-> Undefined, maxHeight |-> Undefined, quality |-> Undefined, format |-> Undefined]

\* The images and options processImage is called with: dimensions below,
\* at and above the limits; no option, every option, one option.
ImageWidths == {800, 1920, 1921, 4000}
ImageHeights == {600, 1080, 1081, 3000}
TranscodeBuffers == {ImageBuffer("png", w, h) : w \in ImageWidths, h \in ImageHeights}

TranscodeOptions ==
    { NoTranscodeOptions,
      [maxWidth |-> Num(800), maxHeight |-> Num(600), quality |-> Num(70), format |-> Str("webp")],
      [maxWidth |-> Undefined, maxHeight |-> Num(3000), quality |-> Undefined, format |-> Undefined] }

\* A destructuring default: the default replaces undefined only.
OrDefault(value, default) == IF value = Undefined THEN default ELSE value

\* const { maxWidth = ..., maxHeight = ..., quality = ..., format = ... } = options
Destructure(options) ==
    [ maxWidth |-> OrDefault(options.maxWidth, Num(IMAGE_CONFIG.maxWidth)).n,
      maxHeight |-> OrDefault(options.maxHeight, Num(IMAGE_CONFIG.maxHeight)).n,
      quality |-> OrDefault(options.quality, Num(IMAGE_CONFIG.quality)).n,
      format |-> OrDefault(options.format, Str(IMAGE_CONFIG.format)).s ]

\* Variant of NeedsResize: both dimensions have to exceed their limits.
NeedsResizeBoth(metadata, config) ==
    metadata.width > config.maxWidth /\ metadata.height > config.maxHeight

\* metadata.width > maxWidth || metadata.height > maxHeight
NeedsResize(metadata, config) ==
    metadata.width > config.maxWidth \/ metadata.height > config.maxHeight

\* The operations of the pipeline, as invoked on sharpInstance.
MetadataStep == [op |-> "metadata"]
ResizeStep(config) ==
    [op |-> "resize", width |-> config.maxWidth, height |-> config.maxHeight,
     fit |-> "inside", withoutEnlargement |-> TRUE]
JpegStep(config) ==
    [op |-> "jpeg", quality |-> config.quality, progressive |-> TRUE, mozjpeg |-> TRUE]
ToBufferStep == [op |-> "toBuffer"]

\* The pipeline built after metadata(): resize only when needed, then the
\* jpeg encoder and toBuffer in both branches.
Pipeline(metadata, config) ==
    (IF NeedsResize(metadata, config) THEN <<ResizeStep(config)>> ELSE <<>>)
      \o <<JpegStep(config), ToBufferStep>>

\* The size sharp gives an image resized with fit 'inside' and
\* withoutEnlargement: the largest size within the box that keeps the
\* aspect ratio and does not exceed the image's own size.
RoundDiv(a, b) == (2 * a + b) \div (2 * b)

FitInside(width, height, boxWidth, boxHeight) ==
    IF width <= boxWidth /\ height <= boxHeight
    THEN [width |-> width, height |-> height]
    ELSE IF width * boxHeight >= height * boxWidth
         THEN [width |-> boxWidth, height |-> RoundDiv(height * boxWidth, width)]
         ELSE [width |-> RoundDiv(width * boxHeight, height), height |-> boxHeight]

\* What toBuffer() resolves with for an image put through the operations.
Rendered(buffer, steps) ==
    LET resizes == SelectSeq(steps, LAMBDA st : st.op = "resize")
        encodes == SelectSeq(steps, LAMBDA st : st.op = "jpeg")
        size == IF resizes = <<>>
                THEN [width |-> buffer.width, height |-> buffer.height]
                ELSE FitInside(buffer.width, buffer.height, resizes[1].width, resizes[1].height)
    IN  [t |-> "Buffer", bytes |-> "jpeg", width |-> size.width, height |-> size.height,
         quality |-> encodes[1].quality]

\* The failures sharp reports: of decoding, at metadata(); of decoding,
\* resizing or encoding, at toBuffer().
DecodeErrors ==
    {NewError("Input buffer contains unsupported image format"), NewError("Input buffer is empty")}

PipelineErrors ==
    { NewError("VipsJpeg: Premature end of input file"),
      NewError("Processed image is too large for the JPEG format") }

MetadataOutcomes(buffer) ==
    {Ok([width |-> buffer.width, height |-> buffer.height, format |-> buffer.bytes])}
      \cup {Fail(e) : e \in DecodeErrors}

ToBufferOutcomes(buffer, steps) ==
    {Ok(Rendered(buffer, steps))} \cup {Fail(e) : e \in PipelineErrors}

\* throw new Error(`Image processing failed: ${error.message}`)
Wrapped(error) == NewError("Image processing failed: " \o error.message)

\* The call, up to its first await: the defaults, sharp(), metadata().
PStart(fileBuffer, options) ==
    /\ pPc = "idle"
    /\ pPc' = "metadata"
    /\ pBuffer' = fileBuffer
    /\ pConfig' = Destructure(options)
    /\ pSteps' = <<MetadataStep>>
    /\ UNCHANGED <<pMetadata, pResult, pError>>

\* metadata() settles: the pipeline is built and toBuffer() is awaited, or
\* the catch block wraps the rejection.
PMetadataSettle(outcome) ==
    /\ pPc = "metadata"
    /\ outcome \in MetadataOutcomes(pBuffer)
    /\ IF outcome.ok
       THEN /\ pPc' = "encoding"
            /\ pMetadata' = outcome.result
            /\ pSteps' = pSteps \o Pipeline(outcome.result, pConfig)
            /\ UNCHANGED pError
       ELSE /\ pPc' = "thrown"
            /\ pError' = Wrapped(outcome.error)
            /\ UNCHANGED <<pMetadata, pSteps>>
    /\ UNCHANGED <<pBuffer, pConfig, pResult>>

\* toBuffer() settles: the processed buffer is returned, or the catch block
\* wraps the rejection.
PToBufferSettle(outcome) ==
    /\ pPc = "encoding"
    /\ outcome \in ToBufferOutcomes(pBuffer, pSteps)
    /\ IF outcome.ok
       THEN /\ pPc' = "returned"
            /\ pResult' = outcome.result
            /\ UNCHANGED pError
       ELSE /\ pPc' = "thrown"
            /\ pError' = Wrapped(outcome.error)
            /\ UNCHANGED pResult
    /\ UNCHANGED <<pBuffer, pConfig, pMetadata, pSteps>>

TranscodeInit ==
    /\ pPc = "idle"
    /\ pBuffer = NoImage
    /\ pConfig = Destructure(NoTranscodeOptions)
    /\ pMetadata = [width |-> 0, height |-> 0, format |-> ""]
    /\ pSteps = <<>>
    /\ pResult = Undefined
    /\ pError = NewError("")

(***************************************************************************)
(* Specifications.  Each entry point is checked on its own: the module     *)
(* keeps no state of its own between or across calls.                      *)
(***************************************************************************)
Init == RetryInit /\ UploadInit /\ DeleteInit /\ TranscodeInit

\* One call of uploadWithRetry.
RetryStart ==
    /\ \E f \in RetryFiles, o \in RetryOptions : RStart(1, f, o)
    /\ UNCHANGED <<uploadVars, deleteVars, transcodeVars>>

RetrySettle ==
    /\ \E out \in AttemptOutcomes(1, rRetryCount[1] + 1, rFile[1], rOptions[1]) : RSettle(1, out)
    /\ UNCHANGED <<uploadVars, deleteVars, transcodeVars>>

RetryWaitDone ==
    /\ RWaitDone(1)
    /\ UNCHANGED <<uploadVars, deleteVars, transcodeVars>>

NextRetry == RetryStart \/ RetrySettle \/ RetryWaitDone

SpecRetry == Init /\ [][NextRetry]_vars

\* One call of uploadImageToCloudinary.
UploadStart ==
    /\ \E f \in UploadFiles, d \in UploadFolders : UStart(1, f, d)
    /\ UNCHANGED <<retryVars, deleteVars, transcodeVars>>

UploadFirstSettle ==
    /\ \E out \in UploadOutcomes(1, 1, uOptions[1]) : UFirstSettle(1, out)
    /\ UNCHANGED <<retryVars, deleteVars, transcodeVars>>

UploadSecondSettle ==
    /\ \E out \in UploadOutcomes(1, 2, uOptions[1]) : USecondSettle(1, out)
    /\ UNCHANGED <<retryVars, deleteVars, transcodeVars>>

NextUpload == UploadStart \/ UploadFirstSettle \/ UploadSecondSettle

SpecUpload == Init /\ [][NextUpload]_vars

\* One call of deleteResourceFromCloudinary.
DeleteStart ==
    /\ \E u \in DeleteUrls : DCall(u)
    /\ UNCHANGED <<retryVars, uploadVars, transcodeVars>>

DeleteDestroySettle ==
    /\ \E out \in DestroyOutcomes : DDestroySettle(out)
    /\ UNCHANGED <<retryVars, uploadVars, transcodeVars>>

DeletePurgeSettle ==
    /\ \E out \in PurgeOutcomes : DPurgeSettle(out)
    /\ UNCHANGED <<retryVars, uploadVars, transcodeVars>>

NextDelete == DeleteStart \/ DeleteDestroySettle \/ DeletePurgeSettle

SpecDelete == Init /\ [][NextDelete]_vars

\* One call of processImage.
TranscodeStart ==
    /\ \E b \in TranscodeBuffers, o \in TranscodeOptions : PStart(b, o)
    /\ UNCHANGED <<retryVars, uploadVars, deleteVars>>

TranscodeMetadataSettle ==
    /\ \E out \in MetadataOutcomes(pBuffer) : PMetadataSettle(out)
    /\ UNCHANGED <<retryVars, uploadVars, deleteVars>>

TranscodeToBufferSettle ==
    /\ pPc = "encoding"
    /\ \E out \in ToBufferOutcomes(pBuffer, pSteps) : PToBufferSettle(out)
    /\ UNCHANGED <<retryVars, uploadVars, deleteVars>>

NextTranscode == TranscodeStart \/ TranscodeMetadataSettle \/ TranscodeToBufferSettle

SpecTranscode == Init /\ [][NextTranscode]_vars

\* Two calls in flight at once, each of uploadImageToCloudinary or of
\* uploadWithRetry: the steps of the two calls interleave at their awaits
\* in every order.
ConcurrentFiles ==
    {f \in UploadFiles : f.buffer = Buffer("raw") /\ f.size = 2 * MB /\ f.mimetype # Undefined}

ConcurrentFolders == {Undefined, Str("course-101"), Str("chat-images")}

ConcurrentRetryArgs ==
    { [file |-> [buffer |-> Buffer("raw"), path |-> Undefined],
       options |-> [resource_type |-> "auto", folder |-> Str("course-101")]],
      [file |-> NoFile,
       options |-> [resource_type |-> "video", folder |-> Undefined]] }

ConcurrentUploadStart ==
    /\ \E c \in Calls, f \in ConcurrentFiles, d \in ConcurrentFolders :
         rPc[c] = "idle" /\ UStart(c, f, d)
    /\ UNCHANGED <<retryVars, deleteVars, transcodeVars>>

ConcurrentUploadFirstSettle ==
    /\ \E c \in Calls : \E out \in UploadOutcomes(c, 1, uOptions[c]) : UFirstSettle(c, out)
    /\ UNCHANGED <<retryVars, deleteVars, transcodeVars>>

ConcurrentUploadSecondSettle ==
    /\ \E c \in Calls : \E out \in UploadOutcomes(c, 2, uOptions[c]) : USecondSettle(c, out)
    /\ UNCHANGED <<retryVars, deleteVars, transcodeVars>>

ConcurrentRetryStart ==
    /\ \E c \in Calls, a \in ConcurrentRetryArgs :
         uPc[c] = "idle" /\ RStart(c, a.file, a.options)
    /\ UNCHANGED <<uploadVars, deleteVars, transcodeVars>>

ConcurrentRetrySettle ==
    /\ \E c \in Calls :
         \E out \in AttemptOutcomes(c, rRetryCount[c] + 1, rFile[c], rOptions[c]) : RSettle(c, out)
    /\ UNCHANGED <<uploadVars, deleteVars, transcodeVars>>

ConcurrentRetryWaitDone ==
    /\ \E c \in Calls : RWaitDone(c)
    /\ UNCHANGED <<uploadVars, deleteVars, transcodeVars>>

NextConcurrent ==
    \/ ConcurrentUploadStart
    \/ ConcurrentUploadFirstSettle
    \/ ConcurrentUploadSecondSettle
    \/ ConcurrentRetryStart
    \/ ConcurrentRetrySettle
    \/ ConcurrentRetryWaitDone

SpecConcurrent == Init /\ [][NextConcurrent]_vars

(***************************************************************************)
(* Reading a log.                                                          *)
(***************************************************************************)
EventsOf(log, type) == SelectSeq(log, LAMBDA e : e.type = type)

NumAttempts(log) == Len(EventsOf(log, "attempt"))
NumFails(log) == Len(EventsOf(log, "fail"))
NumWaits(log) == Len(EventsOf(log, "wait"))

\* The error of the n-th failure recorded in the log.
FailError(log, n) == EventsOf(log, "fail")[n].error

LastFailError(log) == FailError(log, NumFails(log))

(***************************************************************************)
(* uploadWithRetry: properties (checked under SpecRetry)                   *)
(***************************************************************************)

\* C1: when every attempt of an upload fails, uploadWithRetry makes exactly
\* 4 attempts (1 initial + 3 retries) and then rejects with the error of the
\* last one; it never makes a 5th attempt and never gives up before the 4th.
C1_FourAttemptsThenLastError ==
    /\ NumAttempts(rLog[1]) <= 4
    /\ rPc[1] = "thrown" =>
         /\ NumAttempts(rLog[1]) = 4
         /\ NumFails(rLog[1]) = 4
         /\ rLog[1][Len(rLog[1])].type = "fail"
         /\ rLog[1][Len(rLog[1])].n = 4
         /\ rError[1] = rLog[1][Len(rLog[1])].error
    /\ (rPc[1] # "idle" /\ NumFails(rLog[1]) = NumAttempts(rLog[1]) /\ NumAttempts(rLog[1]) < 4) =>
         rPc[1] = "waiting"

\* A permanently failing upload of a buffer has been given up, and its last
\* error differs from its first.
C1_Witness ==
    /\ rPc[1] = "thrown"
    /\ StreamBody(rFile[1]).from = "buffer"
    /\ NumFails(rLog[1]) = 4
    /\ FailError(rLog[1], 1) = ErrTimeout
    /\ FailError(rLog[1], 4) = ErrBadRequest
    /\ rError[1] = ErrBadRequest

\* C2: when the attempts fail N-1 times and attempt N succeeds, exactly N-1
\* waits of 5000 ms have occurred, each between a failed attempt and the next
\* attempt, and the call resolves with the result of attempt N.
C2_WaitsBetweenAttempts ==
    rPc[1] = "returned" =>
        LET log == rLog[1]
            N == NumAttempts(log)
        IN  /\ NumFails(log) = N - 1
            /\ NumWaits(log) = N - 1
            /\ rWaited[1] = 5000 * (N - 1)
            /\ \A i \in DOMAIN log :
                 log[i].type = "wait" =>
                   /\ log[i].ms = 5000
                   /\ i > 1 /\ log[i - 1].type = "fail"
                   /\ i < Len(log) /\ log[i + 1].type = "attempt"
                   /\ log[i + 1].n = log[i - 1].n + 1
            /\ \A i \in DOMAIN log :
                 (log[i].type = "attempt" /\ log[i].n > 1) => log[i - 1].type = "wait"
            /\ log[Len(log)].type = "ok"
            /\ log[Len(log)].n = N
            /\ rResult[1] = log[Len(log)].result
            /\ rResult[1].public_id = <<1, N>>

\* The third attempt has succeeded after two failures and two waits.
C2_Witness ==
    /\ rPc[1] = "returned"
    /\ NumAttempts(rLog[1]) = 3
    /\ NumWaits(rLog[1]) = 2
    /\ rWaited[1] = 10000
    /\ rResult[1].public_id = <<1, 3>>

(***************************************************************************)
(* uploadImageToCloudinary: properties (checked under SpecUpload)          *)
(***************************************************************************)
\* The folder arguments that name a folder: neither absent, empty, blank
\* nor the string "undefined".
NonBlankFolders == {Str("course-101"), Str("chat-images")}

FirstAttemptFailed(log) == Len(log) >= 2 /\ log[2].type = "fail" /\ log[2].n = 1

\* The error the caller must receive when `cause` is what the outer catch
\* block caught, for a file of the given size.
SizeText(size) ==
    CASE size = 524288 -> "0.50"
      [] size = 2097152 -> "2.00"
      [] size = 6291456 -> "6.00"

Enriched(size) ==
    NewError("File too large for upload (" \o SizeText(size)
               \o "MB). Cloudinary free accounts have upload limits. Please try a smaller file or upgrade your Cloudinary account.")

Generic(cause) == NewError("Failed to upload file: " \o cause.message)

\* C3 as stated: with folder "" and a failed first attempt there is no
\* second attempt and the caller receives the first attempt's error itself.
C3_OriginalErrorVerbatim ==
    (uPc[1] = "thrown" /\ uFolder[1] = Str("") /\ FirstAttemptFailed(uLog[1])) =>
        /\ NumAttempts(uLog[1]) = 1
        /\ uError[1] = FailError(uLog[1], 1)

\* C3, amended: with folder "" and a failed first attempt there is no second
\* attempt (at no time), the call fails at once, and the caller receives a
\* new error made from the first attempt's error: the file-too-large message
\* when its http_code is 413, else "Failed to upload file: " followed by its
\* message; never the first attempt's error itself.
C3_NoSecondAttemptWrappedError ==
    (uPc[1] # "idle" /\ uFolder[1] = Str("")) =>
        /\ NumAttempts(uLog[1]) <= 1
        /\ FirstAttemptFailed(uLog[1]) =>
             LET first == FailError(uLog[1], 1)
             IN  /\ uPc[1] = "thrown"
                 /\ Len(uLog[1]) = 2
                 /\ uError[1] # first
                 /\ uError[1].origin = "local"
                 /\ uError[1] = IF first.http_code = 413
                                THEN Enriched(uFile[1].size)
                                ELSE Generic(first)

\* The first attempt of a call with folder "" has failed with a timeout.
C3_Witness ==
    /\ uPc[1] = "thrown"
    /\ uFolder[1] = Str("")
    /\ FirstAttemptFailed(uLog[1])
    /\ FailError(uLog[1], 1) = ErrTimeout
    /\ uError[1].message = "Failed to upload file: ETIMEDOUT"

ExampleUrl == "https://res.example.com/cloud/image/upload/v1700000000/folder/sub/name.png"
CloudinaryUrl == "https://res.cloudinary.com/cloud/image/upload/v1700000000/folder/sub/name.png"

\* C5 as stated: for the url
\* https://res.example.com/cloud/image/upload/v1700000000/folder/sub/name.png
\* the identifier passed to the delete-by-identifier call is folder/sub/name.
C5_ExampleUrlIdentifier ==
    (dUrl = Str(ExampleUrl) /\ Len(dLog) >= 1) =>
        /\ dLog[1].api = "uploader.destroy"
        /\ dLog[1].public_id = "folder/sub/name"

\* C5, amended: the identifier passed to the delete-by-identifier call is
\* folder/sub/name for the same path on a host containing "cloudinary.com"
\* (https://res.cloudinary.com/cloud/image/upload/v1700000000/folder/sub/name.png);
\* for the res.example.com url, which does not contain "cloudinary.com", the
\* identifier passed is the whole url, unchanged.
C5_HostedUrlIdentifier ==
    /\ (dUrl = Str(CloudinaryUrl) /\ dPc # "idle") =>
         /\ Len(dLog) >= 1
         /\ dLog[1].api = "uploader.destroy"
         /\ dLog[1].public_id = "folder/sub/name"
    /\ (dUrl = Str(ExampleUrl) /\ dPc # "idle") =>
         /\ Len(dLog) >= 1
         /\ dLog[1].api = "uploader.destroy"
         /\ dLog[1].public_id = ExampleUrl

\* The delete-by-identifier call for the res.cloudinary.com url is issued.
C5_Witness ==
    /\ dUrl = Str(CloudinaryUrl)
    /\ dPc = "destroying"
    /\ Len(dLog) = 1
    /\ dLog[1].public_id = "folder/sub/name"

\* C6: the deletion entry point never rejects: whatever the url and whatever
\* the identifier derivation, the delete call and the purge call do, the call
\* is idle, waits for a remote answer, or has returned; when anything failed
\* it has returned null.
C6_DeleteNeverRaises ==
    /\ dPc \in {"idle", "destroying", "purging", "returned"}
    /\ dError = NewError("")
    /\ (dPc = "returned" /\ Truthy(dUrl) /\ Len(dLog) < 2) => dReturn = Null
    /\ (dPc = "returned" /\ Len(dLog) = 2) => dReturn \in {Null, [result |-> "ok"], [result |-> "not found"]}

\* The purge call has failed and the call has returned null.
C6_Witness ==
    /\ dPc = "returned"
    /\ Len(dLog) = 2
    /\ dReturn = Null

\* C7: a call with url "" or undefined (or any falsy url) issues no remote
\* call and returns undefined at once.
C7_FalsyUrlNoRemoteCall ==
    (dPc # "idle" /\ (dUrl \in {Str(""), Undefined} \/ ~Truthy(dUrl))) =>
        /\ dLog = <<>>
        /\ dPc = "returned"
        /\ dReturn = Undefined
        /\ dPublicId = ""

\* A call with url "" has returned.
C7_Witness ==
    /\ dPc = "returned"
    /\ dUrl = Str("")
    /\ dLog = <<>>

(***************************************************************************)
(* uploadImageToCloudinary: transcoding and the 413 rejection              *)
(* (checked under SpecUpload)                                              *)
(***************************************************************************)
IsImageFile(file) == Truthy(file.mimetype) /\ StartsWith(file.mimetype.s, "image/")

\* The place of the first attempt in a log; 0 when there is none.
FirstAttemptAt(log) ==
    LET at == {i \in DOMAIN log : log[i].type = "attempt"}
    IN  IF at = {} THEN 0 ELSE CHOOSE i \in at : \A j \in at : i <= j

\* C8: in a call whose file is an image larger than 1 MB, processImage has
\* completed before the first remote attempt, and that attempt sends the
\* transcoded bytes, not the bytes of file.buffer.
C8_TranscodeBeforeUpload ==
    (IsImageFile(uFile[1]) /\ uFile[1].size > 1048576 /\ NumAttempts(uLog[1]) >= 1) =>
        LET at == FirstAttemptAt(uLog[1])
        IN  /\ \E i \in 1..(at - 1) : uLog[1][i].type = "transcode"
            /\ uLog[1][at].body.data # uFile[1].buffer.bytes

\* A failure with http_code 413 is recorded at place i of the log.
Rejected413At(log, i) == log[i].type = "fail" /\ log[i].error.http_code = 413

\* C9 as stated: once an attempt was rejected with 413, the call issues no
\* further attempt, whatever the folder.
C9_NoAttemptAfter413 ==
    \A i \in DOMAIN uLog[1] :
        Rejected413At(uLog[1], i) =>
            \A j \in (i + 1)..Len(uLog[1]) : uLog[1][j].type # "attempt"

\* C9, amended: a 413 rejection of the first attempt is followed by exactly
\* one further attempt, with the folder, when the folder argument is
\* non-blank, and by none when it is absent, empty, blank or "undefined";
\* a 413 rejection of the second attempt is terminal.
C9_SecondAttemptAfter413IffFolder ==
    \A i \in DOMAIN uLog[1] :
        Rejected413At(uLog[1], i) =>
            IF uLog[1][i].n = 1 /\ uFolder[1] \in NonBlankFolders
            THEN /\ i = 2
                 /\ Len(uLog[1]) >= 3
                 /\ uLog[1][3].type = "attempt"
                 /\ uLog[1][3].n = 2
                 /\ uLog[1][3].options.folder = uFolder[1]
                 /\ NumAttempts(uLog[1]) = 2
            ELSE /\ i = Len(uLog[1])
                 /\ uPc[1] = "thrown"
                 /\ NumAttempts(uLog[1]) = uLog[1][i].n

\* A first attempt rejected with 413 has been followed by a second attempt.
C9_Witness ==
    /\ uPc[1] = "second"
    /\ uFolder[1] = Str("course-101")
    /\ Rejected413At(uLog[1], 2)
    /\ NumAttempts(uLog[1]) = 2

\* C10 as stated: a failed call in which any attempt was rejected with 413
\* fails with the file-too-large message naming the size; any other failed
\* call fails with the generic wrapped error.
C10_EnrichedIfAny413 ==
    uPc[1] = "thrown" =>
        IF \E i \in DOMAIN uLog[1] : Rejected413At(uLog[1], i)
        THEN uError[1] = Enriched(uFile[1].size)
        ELSE StartsWith(uError[1].message, "Failed to upload file: ")

\* C10, amended: a failed call fails with the file-too-large message naming
\* the size exactly when the error of its last attempt has http_code 413;
\* otherwise (also when the first attempt was rejected with 413 and the
\* second failed differently, and when no attempt was made) it fails with
\* "Failed to upload file: " followed by the message of the last error.
C10_EnrichedIffLast413 ==
    uPc[1] = "thrown" =>
        LET cause == IF NumFails(uLog[1]) = 0 THEN NewError("Invalid file buffer")
                     ELSE LastFailError(uLog[1])
        IN  /\ NumFails(uLog[1]) = 0 => uLog[1] = <<>>
            /\ uError[1] = IF cause.http_code = 413
                           THEN Enriched(uFile[1].size)
                           ELSE Generic(cause)
            /\ uError[1].http_code = 0

\* The first attempt was rejected with 413, the second timed out, and the
\* call failed with the generic error.
C10_Witness ==
    /\ uPc[1] = "thrown"
    /\ NumFails(uLog[1]) = 2
    /\ FailError(uLog[1], 1) = ErrTooLarge
    /\ FailError(uLog[1], 2) = ErrTimeout
    /\ uError[1].message = "Failed to upload file: ETIMEDOUT"

(***************************************************************************)
(* uploadImageToCloudinary: validation, last cause, options, result        *)
(* (checked under SpecUpload)                                              *)
(***************************************************************************)

\* C11: when file.buffer is absent or is not a Buffer, the call fails with
\* the invalid-buffer error (wrapped by the outer catch block) at once: no
\* remote attempt is issued and nothing is tried again.
C11_InvalidBufferFailsAtOnce ==
    (uPc[1] # "idle" /\ uFile[1].buffer \in {Undefined, Str("raw")}) =>
        /\ uPc[1] = "thrown"
        /\ uLog[1] = <<>>
        /\ uResult[1] = Undefined
        /\ uError[1] = NewError("Failed to upload file: Invalid file buffer")

\* A call whose file.buffer is a string has failed without any attempt.
C11_Witness ==
    /\ uPc[1] = "thrown"
    /\ uFile[1].buffer = Str("raw")
    /\ uLog[1] = <<>>
    /\ uError[1].message = "Failed to upload file: Invalid file buffer"

(***************************************************************************)
(* deleteResourceFromCloudinary: identifier and order of the remote calls  *)
(* (checked under SpecDelete)                                              *)
(***************************************************************************)
\* The number of segments that follow the first "upload" segment of a url;
\* -1 when it has no such segment.
SegmentsAfterUpload(url) ==
    LET parts == Split(url, "/")
    IN  IF FindUpload(parts) = 0 THEN -1 ELSE Len(parts) - FindUpload(parts)

\* The identifier C12 describes: the segments after "upload", without a
\* leading v<digits> segment, joined with "/", the final extension removed.
ClaimedId(url) ==
    LET parts == Split(url, "/")
        after == SubSeq(parts, FindUpload(parts) + 1, Len(parts))
        kept == IF IsVersion(after[1]) THEN Tail(after) ELSE after
    IN  StripExtension(Join(kept, "/"))

\* C12: for every hosted url with a segment "upload" followed by at least
\* one more segment, the identifier passed to the delete call is the one
\* described above, also when a single segment follows "upload".
C12_IdentifierOfEveryUploadUrl ==
    (/\ dPc # "idle"
     /\ dUrl.t = "string"
     /\ Includes(dUrl.s, "cloudinary.com")
     /\ SegmentsAfterUpload(dUrl.s) >= 1) =>
        /\ Len(dLog) >= 1
        /\ dLog[1].public_id = ClaimedId(dUrl.s)


\* C13 as stated: every call with a non-empty url issues the delete call and
\* then the purge call, both with the same identifier.
C13_PurgeInEveryCall ==
    (dPc = "returned" /\ dUrl.t = "string" /\ dUrl.s # "") =>
        /\ Len(dLog) = 2
        /\ dLog[1].api = "uploader.destroy"
        /\ dLog[2].api = "api.delete_derived_resources"
        /\ dLog[2].public_id = dLog[1].public_id

\* C13, amended: a call with a non-empty string url issues the delete call
\* first; the purge call is issued second, with the same identifier, exactly
\* when the delete call has succeeded; when the delete call fails no purge
\* call is issued at all.  No other remote call is issued.
C13_PurgeAfterSuccessfulDelete ==
    (dPc # "idle" /\ dUrl.t = "string" /\ dUrl.s # "") =>
        /\ Len(dLog) \in {1, 2}
        /\ dLog[1].api = "uploader.destroy"
        /\ dLog[1].public_id = dPublicId
        /\ dPc = "destroying" => Len(dLog) = 1
        /\ dPc = "purging" => Len(dLog) = 2
        /\ Len(dLog) = 2 <=> dResult \in {[result |-> "ok"], [result |-> "not found"]}
        /\ Len(dLog) = 1 => dResult = Undefined
        /\ (dPc = "returned" /\ Len(dLog) = 1) => dReturn = Null
        /\ Len(dLog) = 2 =>
             /\ dLog[2].api = "api.delete_derived_resources"
             /\ dLog[2].public_id = dLog[1].public_id

\* Both remote calls have been issued for a url whose identifier differs
\* from the url.
C13_Witness ==
    /\ dPc = "purging"
    /\ dUrl = Str(CloudinaryUrl)
    /\ Len(dLog) = 2
    /\ dLog[2].public_id = "folder/sub/name"

(***************************************************************************)
(* uploadImageToCloudinary: the cause surfaced after two failures          *)
(* (checked under SpecUpload)                                              *)
(***************************************************************************)

\* C14: when both attempts of a call with a non-blank folder fail, the error
\* the caller receives is made from the second attempt's error, not from the
\* first's: the 413 test is applied to the second error, and the generic
\* message names the second error's message.
C14_SecondCauseSurfaced ==
    (uPc[1] = "thrown" /\ NumFails(uLog[1]) = 2) =>
        LET first == FailError(uLog[1], 1)
            second == FailError(uLog[1], 2)
        IN  /\ uFolder[1] \in NonBlankFolders
            /\ NumAttempts(uLog[1]) = 2
            /\ second.http_code = 413 => uError[1] = Enriched(uFile[1].size)
            /\ second.http_code # 413 =>
                 /\ uError[1].message = "Failed to upload file: " \o second.message
                 /\ first # second => ~Includes(uError[1].message, first.message)
            /\ (first.http_code = 413 /\ second.http_code # 413) =>
                 ~StartsWith(uError[1].message, "File too large")

\* Both attempts have failed, the second with 413 after a first with 400,
\* and the caller has received the file-too-large message.
C14_Witness ==
    /\ uPc[1] = "thrown"
    /\ NumFails(uLog[1]) = 2
    /\ FailError(uLog[1], 1) = ErrBadRequest
    /\ FailError(uLog[1], 2) = ErrTooLarge
    /\ StartsWith(uError[1].message, "File too large for upload (")

\* C17: the first attempt of the entry point never carries a folder, for
\* any folder argument; a folder is in the options only of a second attempt,
\* it is the folder argument, and that argument is supplied and not blank.
C17_FolderOnlyOnSecondAttempt ==
    \A i \in DOMAIN uLog[1] :
        uLog[1][i].type = "attempt" =>
            /\ uLog[1][i].n \in {1, 2}
            /\ uLog[1][i].n = 1 => uLog[1][i].options.folder = Undefined
            /\ uLog[1][i].options.folder # Undefined =>
                 /\ uLog[1][i].n = 2
                 /\ uLog[1][i].options.folder = uFolder[1]
                 /\ Truthy(uFolder[1])
                 /\ Trim(uFolder[1].s) # ""

\* A call with folder "chat-images" is in its second attempt: the first
\* attempt went without folder, the second carries "chat-images".
C17_Witness ==
    /\ uPc[1] = "second"
    /\ uFolder[1] = Str("chat-images")
    /\ uLog[1][1].options.folder = Undefined
    /\ uLog[1][3].options.folder = Str("chat-images")

\* C18: when an attempt of the entry point succeeds, the call resolves with
\* the remote result of that attempt, unchanged, and issues no attempt after
\* it: one upload in all when the first attempt succeeds, two when the
\* second does.
C18_DescriptorReturnedUnchanged ==
    /\ uPc[1] = "returned" =>
         LET log == uLog[1]
             last == log[Len(log)]
             sent == log[Len(log) - 1]
         IN  /\ last.type = "ok"
             /\ sent.type = "attempt" /\ sent.n = last.n
             /\ NumAttempts(log) = last.n
             /\ NumFails(log) = last.n - 1
             /\ uResult[1] = last.result
             /\ uResult[1] = Descriptor(1, last.n, sent.options)
             /\ last.n = 1 => Len(log) = 2
             /\ last.n = 2 => Len(log) = 4
    /\ uPc[1] # "returned" => uResult[1] = Undefined
    /\ \A i \in DOMAIN uLog[1] : uLog[1][i].type = "ok" => i = Len(uLog[1])

\* A video upload has succeeded at its second attempt and the caller holds
\* that attempt's descriptor.
C18_Witness ==
    /\ uPc[1] = "returned"
    /\ NumAttempts(uLog[1]) = 2
    /\ uResult[1] = [public_id |-> <<1, 2>>, resource_type |-> "video"]

(***************************************************************************)
(* uploadWithRetry: what is retried (checked under SpecRetry)              *)
(***************************************************************************)

\* C19: every failure of attempts 1 to 3 is followed by a wait of 5000 ms
\* and then by the next attempt, with the same options and the same body,
\* whatever the error is: a remote rejection with http_code 400 or 413, a
\* timeout, or the local 'Invalid file format' of a file with neither buffer
\* nor path, which fails all four attempts.
C19_EveryFailureRetriedAlike ==
    LET log == rLog[1]
    IN  /\ \A i \in DOMAIN log :
             (log[i].type = "fail" /\ log[i].n <= 3) =>
                 IF i = Len(log)
                 THEN rPc[1] = "waiting"
                 ELSE /\ Len(log) >= i + 2
                      /\ log[i + 1] = WaitEvent(log[i].n, 5000)
                      /\ log[i + 2].type = "attempt"
                      /\ log[i + 2].n = log[i].n + 1
                      /\ log[i + 2].options = log[1].options
                      /\ log[i + 2].body = log[1].body
        /\ \A i \in DOMAIN log :
             (log[i].type = "fail" /\ log[i].n = 4) => i = Len(log) /\ rPc[1] = "thrown"
        /\ rPc[1] = "thrown" => NumWaits(log) = 3 /\ rWaited[1] = 15000
        /\ (rPc[1] # "idle" /\ rFile[1] = NoFile) =>
             /\ rPc[1] # "returned"
             /\ \A i \in DOMAIN log : log[i].type = "fail" => log[i].error = ErrInvalidFormat

\* A call with neither buffer nor path has been given up with 'Invalid file
\* format' after three waits.
C19_Witness ==
    /\ rPc[1] = "thrown"
    /\ rFile[1] = NoFile
    /\ NumWaits(rLog[1]) = 3
    /\ NumAttempts(rLog[1]) = 4
    /\ rError[1] = ErrInvalidFormat

(***************************************************************************)
(* Two calls in flight (checked under SpecConcurrent)                      *)
(***************************************************************************)
\* What call c holds: its arguments, its local bindings, its history.
CallState(c) ==
    << uFile[c], uFolder[c], uOptions[c], uLog[c], uResult[c], uError[c],
       rFile[c], rOptions[c], rRetryCount[c], rLog[c], rWaited[c], rResult[c], rError[c] >>

\* The options call c holds and has sent follow from its own arguments and
\* from the number of its own failures.
OwnOptions(c) ==
    /\ uPc[c] \in {"first", "second", "returned"} =>
         /\ uOptions[c] = [resource_type |-> IF IsVideo(uFile[c]) THEN "video" ELSE "auto",
                           folder |-> IF NumFails(uLog[c]) = 0 THEN Undefined ELSE uFolder[c]]
         /\ uLog[c][2 * NumAttempts(uLog[c]) - 1].options = uOptions[c]
         /\ NumAttempts(uLog[c]) = NumFails(uLog[c]) + 1
    /\ \A i \in DOMAIN rLog[c] :
         rLog[c][i].type = "attempt" =>
             /\ rLog[c][i].options.folder = rOptions[c].folder
             /\ rLog[c][i].options.resource_type = rOptions[c].resource_type
             /\ rLog[c][i].body = StreamBody(rFile[c])

\* The retry counter of call c counts the failures of call c, and the
\* results of call c are descriptors of uploads of call c.
OwnCounter(c) ==
    /\ rPc[c] \in {"inflight", "returned", "thrown"} =>
         /\ rRetryCount[c] = NumAttempts(rLog[c]) - 1
         /\ rRetryCount[c] = NumWaits(rLog[c])
    /\ rPc[c] = "waiting" => rRetryCount[c] = NumFails(rLog[c]) - 1
    /\ rPc[c] = "returned" => rResult[c].public_id = <<c, rRetryCount[c] + 1>>
    /\ uPc[c] = "returned" => uResult[c].public_id = <<c, NumAttempts(uLog[c])>>

\* C15: two concurrent calls share no mutable state.  In every interleaving
\* a step of one call changes nothing the other call holds (arguments,
\* options with folder, retry counter, attempts made), and at every moment
\* the options and the retry counter of a call follow from its own
\* arguments and its own failures.
C15_CallsShareNoState ==
    /\ [](\A c \in Calls : OwnOptions(c) /\ OwnCounter(c))
    /\ [][\A c \in Calls :
            (uPc'[c] = uPc[c] /\ rPc'[c] = rPc[c]) => CallState(c)' = CallState(c)]_vars

\* Two calls of the entry point are both in their second attempt, one for
\* an image with folder "course-101", the other for a video with folder
\* "chat-images", each with its own options.
C15_Witness ==
    /\ uPc[1] = "second" /\ uPc[2] = "second"
    /\ uOptions[1] = [resource_type |-> "auto", folder |-> Str("course-101")]
    /\ uOptions[2] = [resource_type |-> "video", folder |-> Str("chat-images")]
    /\ FailError(uLog[1], 1) = ErrTimeout
    /\ FailError(uLog[2], 1) = ErrTooLarge

\* The attempts recorded in a log.
AttemptsOf(log) == {log[i] : i \in {j \in DOMAIN log : log[j].type = "attempt"}}

\* C16 as stated: every option set sent for an upload has resource kind
\* "auto", overwrite enabled, the filename reuse and uniqueness flags set,
\* and a folder, for every file type and on every attempt.
C16_AutoOverwriteFolderAlways ==
    \A c \in Calls : \A e \in AttemptsOf(uLog[c]) \cup AttemptsOf(rLog[c]) :
        /\ e.options.resource_type = "auto"
        /\ e.options.folder # Undefined
        /\ {"overwrite", "use_filename", "unique_filename"} \subseteq DOMAIN e.options
        /\ e.options.overwrite
        /\ e.options.use_filename
        /\ e.options.unique_filename

\* C16, amended: an option set sent by uploadImageToCloudinary holds the
\* resource kind, "video" for a file whose mimetype starts with "video/" and
\* "auto" for any other, no overwrite and no filename flag, and a folder on
\* the second attempt only; an option set sent by uploadWithRetry holds the
\* caller's resource kind and folder (if any), the filename reuse and
\* uniqueness flags set, overwrite disabled, invalidate and async set, on
\* every attempt.
C16_OptionsAsSent ==
    \A c \in Calls :
        /\ \A e \in AttemptsOf(uLog[c]) :
             /\ DOMAIN e.options = {"resource_type", "folder"}
             /\ e.options.resource_type =
                  IF uFile[c].mimetype \in {Str("video/mp4")} THEN "video" ELSE "auto"
             /\ e.options.folder = IF e.n = 2 THEN uFolder[c] ELSE Undefined
        /\ \A e \in AttemptsOf(rLog[c]) :
             e.options = [ resource_type |-> rOptions[c].resource_type,
                           folder |-> rOptions[c].folder,
                           use_filename |-> TRUE,
                           unique_filename |-> TRUE,
                           overwrite |-> FALSE,
                           invalidate |-> TRUE,
                           async |-> TRUE ]

\* A video goes through the entry point in its second attempt, with kind
\* "video" and its folder, while a call of uploadWithRetry has sent its
\* third option set, with overwrite disabled.
C16_Witness ==
    /\ uPc[1] = "second"
    /\ uFile[1].mimetype = Str("video/mp4")
    /\ uLog[1][1].options = [resource_type |-> "video", folder |-> Undefined]
    /\ uLog[1][3].options = [resource_type |-> "video", folder |-> Str("course-101")]
    /\ rPc[2] = "inflight"
    /\ rRetryCount[2] = 2
    /\ ~rLog[2][Len(rLog[2])].options.overwrite

(***************************************************************************)
(* processImage: properties (checked under SpecTranscode)                  *)
(***************************************************************************)
HasStep(steps, op) == \E i \in DOMAIN steps : steps[i].op = op

\* C20: once the image has been decoded, the resize step is in the pipeline
\* if and only if the intrinsic width exceeds maxWidth or the intrinsic
\* height exceeds maxHeight, and the re-encode step is in it in both cases
\* (an image within the limits keeps its dimensions and is re-encoded); a
\* failure of decoding, resizing or encoding reaches the caller as one
\* error, "Image processing failed: " followed by the cause's message.
C20_ResizeIffExceedsThenReencode ==
    /\ pPc \in {"idle", "metadata"} => ~HasStep(pSteps, "resize") /\ ~HasStep(pSteps, "jpeg")
    /\ (pPc \in {"encoding", "returned"} \/ (pPc = "thrown" /\ Len(pSteps) > 1)) =>
         /\ HasStep(pSteps, "resize") <=>
              (pBuffer.width > pConfig.maxWidth \/ pBuffer.height > pConfig.maxHeight)
         /\ HasStep(pSteps, "jpeg")
         /\ pSteps[Len(pSteps)].op = "toBuffer"
         /\ HasStep(pSteps, "resize") => pSteps[2].op = "resize" /\ pSteps[3].op = "jpeg"
    /\ pPc = "returned" =>
         /\ pResult.bytes = "jpeg"
         /\ pResult.quality = pConfig.quality
         /\ (pBuffer.width <= pConfig.maxWidth /\ pBuffer.height <= pConfig.maxHeight) =>
              pResult.width = pBuffer.width /\ pResult.height = pBuffer.height
         /\ pResult.width <= pConfig.maxWidth /\ pResult.height <= pConfig.maxHeight
    /\ pPc = "thrown" =>
         /\ pResult = Undefined
         /\ \E cause \in (IF Len(pSteps) = 1 THEN DecodeErrors ELSE PipelineErrors) :
              pError = NewError("Image processing failed: " \o cause.message)
    /\ pPc # "thrown" => pError = NewError("")

\* An image of 1921 x 600 has gone through the default limits: it exceeds
\* the width only, was resized to 1920 x 600 and re-encoded.
C20_Witness ==
    /\ pPc = "returned"
    /\ pBuffer = ImageBuffer("png", 1921, 600)
    /\ pConfig.maxWidth = 1920 /\ pConfig.maxHeight = 1080
    /\ HasStep(pSteps, "resize") /\ HasStep(pSteps, "jpeg")
    /\ pResult.width = 1920 /\ pResult.height = 600

(***************************************************************************)
(* uploadImageToCloudinary: no retry policy (checked under SpecUpload)     *)
(***************************************************************************)

\* C21: a call of the entry point issues at most two remote attempts and
\* waits at no point: its history holds no wait, a second attempt follows
\* the first failure directly, a failed second attempt ends the call, and
\* uploadWithRetry (3 retries, 5000 ms before each) is never entered.
C21_AtMostTwoAttemptsNoWait ==
    LET log == uLog[1]
    IN  /\ Len(EventsOf(log, "attempt")) \in {0, 1, 2}
        /\ EventsOf(log, "wait") = <<>>
        /\ \A i \in DOMAIN log :
             log[i].type = "fail" =>
                 \/ i = Len(log) /\ uPc[1] = "thrown"
                 \/ /\ log[i].n = 1
                    /\ i < Len(log)
                    /\ log[i + 1].type = "attempt"
                    /\ log[i + 1].n = 2
        /\ rPc[1] = "idle" /\ rLog[1] = <<>> /\ rWaited[1] = 0 /\ rRetryCount[1] = 0

\* Both attempts of a call with folder "chat-images" have failed, the first
\* with 400, the second with a timeout, and the call has ended there.
C21_Witness ==
    /\ uPc[1] = "thrown"
    /\ uFolder[1] = Str("chat-images")
    /\ Len(uLog[1]) = 4
    /\ FailError(uLog[1], 1) = ErrBadRequest
    /\ FailError(uLog[1], 2) = ErrTimeout

(***************************************************************************)
(* deleteResourceFromCloudinary: what is returned (checked under           *)
(* SpecDelete)                                                             *)
(***************************************************************************)

\* C22: when the delete call fails, no purge call is issued and the call
\* returns null; when the delete call succeeds and the purge call fails, the
\* call returns null; the call returns the result of the delete call only
\* when the delete call and the purge call have both succeeded.
C22_ResultOnlyWhenBothSucceed ==
    /\ Len(dSettled) <= Len(dLog)
    /\ (Len(dSettled) >= 1 /\ ~dSettled[1].ok) =>
         /\ Len(dLog) = 1
         /\ dLog[1].api = "uploader.destroy"
         /\ Len(dSettled) = 1
         /\ dPc = "returned"
         /\ dReturn = Null
    /\ (Len(dSettled) = 2 /\ ~dSettled[2].ok) =>
         /\ dSettled[1].ok
         /\ dPc = "returned"
         /\ dReturn = Null
    /\ (dPc = "returned" /\ dReturn \notin {Null, Undefined}) =>
         /\ Len(dLog) = 2
         /\ Len(dSettled) = 2
         /\ dSettled[1].ok /\ dSettled[2].ok
         /\ dReturn = dSettled[1].result
    /\ (Len(dSettled) = 2 /\ dSettled[2].ok) =>
         dPc = "returned" /\ dReturn = dSettled[1].result /\ dReturn # Null

\* The delete call has answered "ok", the purge call has failed with 400,
\* and the call has returned null.
C22_Witness ==
    /\ dPc = "returned"
    /\ Len(dSettled) = 2
    /\ dSettled[1] = Ok([result |-> "ok"])
    /\ dSettled[2] = Fail(ErrBadRequest)
    /\ dReturn = Null

(***************************************************************************)
(* uploadImageToCloudinary: folders that name nothing (checked under       *)
(* SpecUpload)                                                             *)
(***************************************************************************)
\* The folder arguments made of the text "undefined" or of spaces only.
NamelessFolders == {Str("undefined"), Str("   ")}

\* C23: a folder argument that is the string "undefined", or that is made
\* of whitespace only, is treated like an absent one: the first attempt
\* goes without folder, a failure of the first attempt ends the call with
\* no second attempt, and the failure the caller receives is the one made
\* from the first attempt's error, as for a call without folder.
C23_NamelessFolderLikeAbsent ==
    (uPc[1] # "idle" /\ uFolder[1] \in NamelessFolders) =>
        /\ \A i \in DOMAIN uLog[1] :
             uLog[1][i].type = "attempt" =>
                 uLog[1][i].n = 1 /\ uLog[1][i].options.folder = Undefined
        /\ uPc[1] # "second"
        /\ NumFails(uLog[1]) = 1 =>
             /\ uPc[1] = "thrown"
             /\ uLog[1][Len(uLog[1])] = FailEvent(1, FailError(uLog[1], 1))
             /\ uError[1] = IF FailError(uLog[1], 1).http_code = 413
                            THEN Enriched(uFile[1].size)
                            ELSE Generic(FailError(uLog[1], 1))
             /\ Includes(uError[1].message,
                         IF FailError(uLog[1], 1).http_code = 413
                         THEN "File too large for upload"
                         ELSE FailError(uLog[1], 1).message)

\* The first attempt of a call with folder "undefined" has been rejected
\* with 400 and the call has failed with that cause.
C23_Witness ==
    /\ uPc[1] = "thrown"
    /\ uFolder[1] = Str("undefined")
    /\ NumAttempts(uLog[1]) = 1
    /\ FailError(uLog[1], 1) = ErrBadRequest
    /\ uError[1].message = "Failed to upload file: Invalid option"

====
